---------------------------- MODULE Spec2Model ----------------------------
(***************************************************************************)
(* Model of recipe/LogicRL: the response scorer (reward_function.py) and   *)
(* the record normalizer (preprocess.py).                                  *)
(*                                                                         *)
(* A Python str is a sequence of one-character strings.  Python's None is  *)
(* a tagged value.  Scores are stored doubled (units of one half), so      *)
(* that the answer score -1.5 is the integer -3: format +1/-1 is 2/-2,     *)
(* answer +2/-1/-1.5/-2 is 4/-2/-3/-4 and the sentinel -3 is -6.           *)
(***************************************************************************)
EXTENDS Integers, Sequences, FiniteSets

VARIABLES
    pc,            \* position of the call under study
    solution_str,  \* compute_score: the response string
    ground_truth,  \* compute_score: the ground-truth mapping
    gt_status,     \* compute_score local: parsed ground truth
    answer_text,   \* compute_score local: extracted answer (or None)
    format_score,  \* compute_score local (doubled; 0 = not assigned)
    answer_score,  \* compute_score local (doubled; 0 = not assigned)
    total_score,   \* compute_score return value (doubled; 0 = not returned)
    example,       \* process_fn: the raw example
    out,           \* process_fn: the returned record, or the raised error
    text,          \* newline normalization: the string under normalization
    nl             \* newline normalization: results of the three copies

vars == <<pc, solution_str, ground_truth, gt_status, answer_text, format_score,
          answer_score, total_score, example, out, text, nl>>

-----------------------------------------------------------------------------
(* Characters and literals *)

LowerSeq == <<"a","b","c","d","e","f","g","h","i","j","k","l","m","n","o","p","q","r","s","t","u","v","w","x","y","z">>
UpperSeq == <<"A","B","C","D","E","F","G","H","I","J","K","L","M","N","O","P","Q","R","S","T","U","V","W","X","Y","Z">>
Lower == {LowerSeq[i] : i \in 1..26}
Upper == {UpperSeq[i] : i \in 1..26}
Letters == Lower \cup Upper
Digits == {"0","1","2","3","4","5","6","7","8","9"}
\* \w of the re module (ASCII part)
WordChars == Letters \cup Digits \cup {"_"}
\* \s of the re module and str.strip() (ASCII part)
Whitespace == {" ", "\t", "\n", "\r", "\f"}

LowerOf == [c \in Upper |-> LowerSeq[CHOOSE i \in 1..26 : UpperSeq[i] = c]]
ToLower(c) == IF c \in Upper THEN LowerOf[c] ELSE c

NL == <<"\n">>
ESC_NL == <<"\\","n">>

THINK_OPEN == <<"<","t","h","i","n","k",">">>
THINK_CLOSE == <<"<","/","t","h","i","n","k",">">>
ANSWER_OPEN == <<"<","a","n","s","w","e","r",">">>
ANSWER_CLOSE == <<"<","/","a","n","s","w","e","r",">">>
KNIGHT == <<"k","n","i","g","h","t">>
KNAVE == <<"k","n","a","v","e">>
IS == <<"i","s">>
A == <<"a">>

\* Python None / a present value
None == [none |-> TRUE, s |-> <<>>]
Some(s) == [none |-> FALSE, s |-> s]

-----------------------------------------------------------------------------
(* str primitives.  A value computed once and used several times is passed *)
(* on as a parameter, as a local variable is in the source.                *)

Min(S) == CHOOSE x \in S : \A y \in S : x <= y
Max(S) == CHOOSE x \in S : \A y \in S : x >= y
MinOr(S, default) == IF S = {} THEN default ELSE Min(S)

IsAt(s, sub, i) ==
    /\ i >= 1
    /\ i + Len(sub) - 1 <= Len(s)
    /\ \A k \in 1..Len(sub) : s[i + k - 1] = sub[k]

\* the same under re.IGNORECASE
IsAtCI(s, sub, i) ==
    /\ i >= 1
    /\ i + Len(sub) - 1 <= Len(s)
    /\ \A k \in 1..Len(sub) : ToLower(s[i + k - 1]) = ToLower(sub[k])

\* str.find from a position: 1-based index of the first occurrence, 0 for -1
Find(s, sub, from) ==
    MinOr({i \in from..(Len(s) - Len(sub) + 1) : IsAt(s, sub, i)}, 0)

\* sub in s
Contains(s, sub) == Find(s, sub, 1) # 0

\* str.count / len(re.findall(literal)): non-overlapping occurrences
RECURSIVE CountFrom(_, _, _)
CountAfter(s, sub, i) ==
    IF i = 0 THEN 0 ELSE 1 + CountFrom(s, sub, i + Len(sub))

CountFrom(s, sub, from) == CountAfter(s, sub, Find(s, sub, from))

Count(s, sub) == CountFrom(s, sub, 1)

\* str.replace(old, new) / re.sub(literal, new): left to right, one pass
RECURSIVE ReplaceFrom(_, _, _, _)
ReplaceAt(s, old, new, from, i) ==
    IF i = 0 THEN SubSeq(s, from, Len(s))
    ELSE SubSeq(s, from, i - 1) \o new \o ReplaceFrom(s, old, new, i + Len(old))

ReplaceFrom(s, old, new, from) == ReplaceAt(s, old, new, from, Find(s, old, from))

Replace(s, old, new) == ReplaceFrom(s, old, new, 1)

\* str.strip()
StripTo(s, keep) == IF keep = {} THEN <<>> ELSE SubSeq(s, Min(keep), Max(keep))

Strip(s) == StripTo(s, {i \in 1..Len(s) : s[i] \notin Whitespace})

\* str.split('\n')
RECURSIVE SplitLines(_)
SplitLinesAt(s, i) ==
    IF i = 0 THEN <<s>>
    ELSE <<SubSeq(s, 1, i - 1)>> \o SplitLines(SubSeq(s, i + 1, Len(s)))

SplitLines(s) == SplitLinesAt(s, Find(s, NL, 1))

\* s.split(m, 1)[0]
PrefixBefore(s, i) == IF i = 0 THEN s ELSE SubSeq(s, 1, i - 1)

SplitFirst(s, m) == PrefixBefore(s, Find(s, m, 1))

\* " ".join(parts)
RECURSIVE JoinSpace(_)
JoinSpace(parts) ==
    IF parts = <<>> THEN <<>>
    ELSE IF Len(parts) = 1 THEN parts[1]
    ELSE parts[1] \o <<" ">> \o JoinSpace(Tail(parts))

\* \b at the gap before position i (between s[i-1] and s[i])
WordBoundary(s, i) ==
    (i > 1 /\ i - 1 <= Len(s) /\ s[i - 1] \in WordChars)
        # (i >= 1 /\ i <= Len(s) /\ s[i] \in WordChars)

\* \s+ from position i: the position after the run, 0 when the run is empty
NonEmptyRun(i, e) == IF e > i THEN e ELSE 0

SkipSpaces(s, i) ==
    NonEmptyRun(i, MinOr({j \in i..Len(s) : s[j] \notin Whitespace}, Len(s) + 1))

\* (knight|knave)\b at position k under IGNORECASE: the role, lowered, or <<>>
\* (the two words differ, so at most one alternative matches)
RoleOf(hit) == IF hit = {} THEN <<>> ELSE CHOOSE r \in hit : TRUE

RoleAt(s, k) ==
    RoleOf({r \in {KNIGHT, KNAVE} : IsAtCI(s, r, k) /\ WordBoundary(s, k + Len(r))})

-----------------------------------------------------------------------------
(* reward_function.py *)

\* re.finditer(r'<answer>(.*?)</answer>', s, re.DOTALL) from pos: group(1) of
\* every match, left to right
RECURSIVE answer_matches(_, _)
answer_match_close(s, i, j) ==
    IF j = 0 THEN <<>>
    ELSE <<SubSeq(s, i + Len(ANSWER_OPEN), j - 1)>>
             \o answer_matches(s, j + Len(ANSWER_CLOSE))

answer_match_open(s, i) ==
    IF i = 0 THEN <<>>
    ELSE answer_match_close(s, i, Find(s, ANSWER_CLOSE, i + Len(ANSWER_OPEN)))

answer_matches(s, pos) == answer_match_open(s, Find(s, ANSWER_OPEN, pos))

\* mutant: every literal \n is replaced, real newline or not
extract_newline_fix_always(final_answer) == Replace(final_answer, ESC_NL, NL)

\* the literal-\n compatibility rule inside extract_solution
extract_newline_fix(final_answer) ==
    IF Contains(final_answer, ESC_NL) /\ ~Contains(final_answer, NL)
    THEN Replace(final_answer, ESC_NL, NL)
    ELSE final_answer

\* mutant: the first block is taken
extract_from_matches_first(s, matches) ==
    IF Len(matches) = 0
    THEN [final_answer |-> None, processed_str |-> s]
    ELSE [final_answer |-> Some(extract_newline_fix(Strip(matches[1]))),
          processed_str |-> s]

\* extract_solution after finditer: (final_answer or None, processed_str)
extract_from_matches(s, matches) ==
    IF Len(matches) = 0
    THEN [final_answer |-> None, processed_str |-> s]
    ELSE [final_answer |-> Some(extract_newline_fix(Strip(matches[Len(matches)]))),
          processed_str |-> s]

extract_solution(s) == extract_from_matches(s, answer_matches(s, 1))

\* dict assignment d[k] = v on an insertion-ordered dict of (name, role)
DictSet(d, k, v) ==
    IF \E i \in 1..Len(d) : d[i].name = k
    THEN [i \in 1..Len(d) |-> IF d[i].name = k THEN [name |-> k, role |-> v] ELSE d[i]]
    ELSE Append(d, [name |-> k, role |-> v])

\* dict.get(k): the role, or <<>> for None
DictGet(d, k) ==
    IF \E i \in 1..Len(d) : d[i].name = k
    THEN d[CHOOSE i \in 1..Len(d) : d[i].name = k].role
    ELSE <<>>

\* list(d.keys())
DictKeys(d) == [i \in 1..Len(d) |-> d[i].name]

\* end of the maximal run of letters starting at i: [A-Za-z]+ is greedy
LetterRunEnd(s, i) ==
    MinOr({j \in i..Len(s) : s[j] \notin Letters}, Len(s) + 1) - 1

\* .*?\b(knight|knave)\b from position `from`: the first role start, 0 when
\* none ('.' does not match a newline)
role_start(line, from) ==
    MinOr({k \in from..Len(line) :
              /\ WordBoundary(line, k)
              /\ RoleAt(line, k) # <<>>
              /\ \A m \in from..(k - 1) : line[m] # "\n"}, 0)

\* \b.*?\b(knight|knave)\b after a name ending at j: the role start, or 0
gt_role_after(line, j) ==
    IF WordBoundary(line, j + 1) THEN role_start(line, j + 1) ELSE 0

\* the pattern tried at start position i: the role start, or 0
gt_match_at(line, i) ==
    IF line[i] \in Letters /\ WordBoundary(line, i)
    THEN gt_role_after(line, LetterRunEnd(line, i))
    ELSE 0

gt_groups(line, i, j) ==
    <<SubSeq(line, i, j), RoleAt(line, gt_role_after(line, j))>>

gt_first_match(line, starts) ==
    IF starts = {} THEN <<>>
    ELSE gt_groups(line, Min(starts), LetterRunEnd(line, Min(starts)))

\* re.search(r'\b([A-Za-z]+)\b.*?\b(knight|knave)\b', line, re.IGNORECASE):
\* <<name, role>> of the leftmost match, or <<>>
gt_line_search(line) ==
    gt_first_match(line, {i \in 1..Len(line) : gt_match_at(line, i) # 0})

\* the literal-\n rule at the head of parse_solution_text_format
parse_newline_fix(solution_text) ==
    IF Contains(solution_text, ESC_NL) /\ ~Contains(solution_text, NL)
    THEN Replace(solution_text, ESC_NL, NL)
    ELSE solution_text

\* status_dict[name] = role.lower() when the line matched
record_match(status_dict, match) ==
    IF match = <<>> THEN status_dict ELSE DictSet(status_dict, match[1], match[2])

\* the loop body of parse_solution_text_format, on the stripped line
parse_line(status_dict, line) ==
    IF line = <<>> THEN status_dict ELSE record_match(status_dict, gt_line_search(line))

RECURSIVE parse_lines(_, _)
parse_lines(lines, status_dict) ==
    IF lines = <<>> THEN status_dict
    ELSE parse_lines(Tail(lines), parse_line(status_dict, Strip(Head(lines))))

parse_solution_text_format(solution_text) ==
    parse_lines(SplitLines(parse_newline_fix(solution_text)), <<>>)

\* mutant: the role is matched with its case
after_a_cased(s, q) ==
    IF q # 0 /\ WordBoundary(s, q) /\ (IsAt(s, KNIGHT, q) \/ IsAt(s, KNAVE, q))
    THEN RoleAt(s, q)
    ELSE <<>>

\* re.compile(rf'\b{name}\b\s+is\s+a\s+\b(knight|knave)\b', re.IGNORECASE)
\* matched at position i: the role, lowered, or <<>>.  q is the position
\* after each \s+ (0: no whitespace there)
after_a(s, q) ==
    IF q # 0 /\ WordBoundary(s, q) THEN RoleAt(s, q) ELSE <<>>

after_is(s, q) ==
    IF q # 0 /\ IsAtCI(s, A, q) THEN after_a(s, SkipSpaces(s, q + Len(A))) ELSE <<>>

after_name(s, q) ==
    IF q # 0 /\ IsAtCI(s, IS, q) THEN after_is(s, SkipSpaces(s, q + Len(IS))) ELSE <<>>

name_role_at(s, name, i) ==
    IF IsAtCI(s, name, i) /\ WordBoundary(s, i) /\ WordBoundary(s, i + Len(name))
    THEN after_name(s, SkipSpaces(s, i + Len(name)))
    ELSE <<>>

name_role_first(s, name, hits) ==
    IF hits = {} THEN <<>> ELSE name_role_at(s, name, Min(hits))

\* pattern.search(answer_text): the role of the leftmost match, or <<>>
name_role_search(s, name) ==
    name_role_first(s, name, {i \in 1..Len(s) : name_role_at(s, name, i) # <<>>})

\* status_dict[name] = role when the pattern matched
record_role(status_dict, name, role) ==
    IF role = <<>> THEN status_dict ELSE DictSet(status_dict, name, role)

RECURSIVE parse_names(_, _, _)
parse_names(s, names, status_dict) ==
    IF names = <<>> THEN status_dict
    ELSE parse_names(s, Tail(names),
                     record_role(status_dict, Head(names),
                                 name_role_search(s, Head(names))))

\* "Check if all expected names are accounted for"
all_accounted(status_dict, expected_names) ==
    IF Len(status_dict) # Len(expected_names)
    THEN [none |-> TRUE, d |-> <<>>]
    ELSE [none |-> FALSE, d |-> status_dict]

\* returns the status dict, or None when a name is missing
parse_model_answer(s, expected_names) ==
    all_accounted(parse_names(s, expected_names, <<>>), expected_names)

\* the four tags of validate_response_structure
Tags == {THINK_OPEN, THINK_CLOSE, ANSWER_OPEN, ANSWER_CLOSE}

\* mutant: only the answer tags are counted
validate_response_structure_answer_only(processed_str) ==
    \A tag \in {ANSWER_OPEN, ANSWER_CLOSE} : Count(processed_str, tag) = 1

\* reward_function.validate_response_structure: each tag counted once
validate_response_structure(processed_str) ==
    \A tag \in Tags : Count(processed_str, tag) = 1

\* a local that the call never assigned
Unassigned == [none |-> TRUE, s |-> <<"unassigned">>]

\* "Calculate answer score based on correctness" (doubled)
score_counts(correct_count, n) ==
    IF n - correct_count = 0 THEN 4
    ELSE IF correct_count > 0 THEN -2
    ELSE -3

correct_names(pred, status) ==
    {i \in 1..Len(status) : DictGet(pred, status[i].name) = status[i].role}

score_pred_status(pred_status, status) ==
    IF pred_status.none THEN -4
    ELSE score_counts(Cardinality(correct_names(pred_status.d, status)), Len(status))

\* compute_score, "Validate answer content", the else branch: the answer
\* score (doubled) of an extracted, non-empty answer
content_score(answer, status) ==
    score_pred_status(parse_model_answer(answer, DictKeys(status)), status)

score_record(status, answer, fscore, ascore) ==
    [gt_status |-> status, answer_text |-> answer,
     format_score |-> fscore, answer_score |-> ascore,
     total_score |-> fscore + ascore]

grade_validated(answer, format_correct, status) ==
    score_record(status, answer,
                 IF format_correct THEN 2 ELSE -2,
                 IF ~format_correct \/ answer.none \/ answer.s = <<>>
                 THEN -4
                 ELSE content_score(answer.s, status))

grade_extracted(extracted, status) ==
    grade_validated(extracted.final_answer,
                    validate_response_structure(extracted.processed_str), status)

\* compute_score from "Extract model answer" on: every local and the total
grade_response(solution, status) ==
    grade_extracted(extract_solution(solution), status)

\* ground_truth.get('solution_text_format', '')
solution_text_of(gt) == IF gt.has_key THEN gt.solution_text_format ELSE <<>>

\* mutant: the ground truth is never found unusable
score_parsed_always_grades(solution, status) == grade_response(solution, status)

\* compute_score after "Parse ground truth data"
score_parsed(solution, status) ==
    IF Len(status) = 0
    THEN [score_record(status, Unassigned, 0, 0) EXCEPT !.total_score = -6]
    ELSE grade_response(solution, status)

\* compute_score: every local, and the returned total (doubled)
compute_score(solution, gt) ==
    score_parsed(solution, parse_solution_text_format(solution_text_of(gt)))

-----------------------------------------------------------------------------
(* preprocess.py.  A Python value is a record: t its type, s its text (a  *)
(* str, or the "content" entry of a chat message dict), n its number (an   *)
(* int), l its elements (a list or a numpy array).                         *)

Missing == [t |-> "missing", s |-> <<>>, n |-> 0, l |-> <<>>]
PyNone == [t |-> "none", s |-> <<>>, n |-> 0, l |-> <<>>]
StrVal(s) == [t |-> "str", s |-> s, n |-> 0, l |-> <<>>]
IntVal(n) == [t |-> "int", s |-> <<>>, n |-> n, l |-> <<>>]
ListVal(l) == [t |-> "list", s |-> <<>>, n |-> 0, l |-> l]
NdarrayVal(l) == [t |-> "ndarray", s |-> <<>>, n |-> 0, l |-> l]
Message(content) == [t |-> "dict", s |-> content, n |-> 0, l |-> <<>>]

\* bool(v)
Truthy(v) ==
    CASE v.t = "str" -> v.s # <<>>
      [] v.t = "int" -> v.n # 0
      [] v.t = "list" -> v.l # <<>>
      [] v.t = "dict" -> TRUE
      [] OTHER -> FALSE

\* example.get(key, default)
Get(v, default) == IF v.t = "missing" THEN default ELSE v

\* v or default
Or(v, default) == IF Truthy(v) THEN v ELSE default

DigitSeq == <<"0","1","2","3","4","5","6","7","8","9">>
NONE_TEXT == <<"N","o","n","e">>

\* str(v), for a str, None and an int below 100
PyStr(v) ==
    CASE v.t = "str" -> v.s
      [] v.t = "int" /\ v.n < 10 -> <<DigitSeq[v.n + 1]>>
      [] v.t = "int" /\ v.n >= 10 -> <<DigitSeq[(v.n \div 10) + 1], DigitSeq[(v.n % 10) + 1]>>
      [] OTHER -> NONE_TEXT

\* convert_numpy_types: an array becomes a list, native values pass through
convert_numpy_types(data) == IF data.t = "ndarray" THEN ListVal(data.l) ELSE data

IM_ASSISTANT == <<"<","|","i","m","_","s","t","a","r","t","|",">","a","s","s","i","s","t","a","n","t">>

\* the markers list of clean_text_remove_assistant_segments
markers == <<IM_ASSISTANT, IM_ASSISTANT \o NL, IM_ASSISTANT \o <<" ">>>>

\* for m in markers: if m in cleaned: cleaned = cleaned.split(m, 1)[0]
RECURSIVE cut_markers(_, _)
cut_markers(cleaned, ms) ==
    IF ms = <<>> THEN cleaned
    ELSE cut_markers(SplitFirst(cleaned, Head(ms)), Tail(ms))

\* re.sub(r"</?think>", "", s) and re.sub(r"</?answer>", "", s): one pass, left
\* to right, over the opening and the closing tag
tag_at(s, open, close, i) ==
    IF IsAt(s, open, i) THEN Len(open)
    ELSE IF IsAt(s, close, i) THEN Len(close)
    ELSE 0

RECURSIVE remove_tags_from(_, _, _, _)
remove_tag_at(s, open, close, from, i) ==
    IF i = 0 THEN SubSeq(s, from, Len(s))
    ELSE SubSeq(s, from, i - 1)
             \o remove_tags_from(s, open, close, i + tag_at(s, open, close, i))

remove_tags_from(s, open, close, from) ==
    remove_tag_at(s, open, close, from,
                  MinOr({i \in from..Len(s) : tag_at(s, open, close, i) # 0}, 0))

remove_tags(s, open, close) == remove_tags_from(s, open, close, 1)

clean_text_remove_assistant_segments(txt) ==
    IF txt.t # "str" THEN txt
    ELSE StrVal(Strip(remove_tags(remove_tags(cut_markers(txt.s, markers),
                                           THINK_OPEN, THINK_CLOSE),
                               ANSWER_OPEN, ANSWER_CLOSE)))

\* normalize_newlines on a str
normalize_newlines_str(txt) ==
    IF Contains(txt, ESC_NL) /\ ~Contains(txt, NL)
    THEN Replace(txt, ESC_NL, NL)
    ELSE txt

normalize_newlines(txt) ==
    IF txt.t # "str" THEN txt ELSE StrVal(normalize_newlines_str(txt.s))

ROLE_KEY == <<"r","o","l","e">>
CONTENT_KEY == <<"c","o","n","t","e","n","t">>

\* for s in v: the elements of a list, the keys of a chat message dict
Iterate(v) == IF v.t = "dict" THEN <<StrVal(ROLE_KEY), StrVal(CONTENT_KEY)>> ELSE v.l

\* [str(s).strip() for s in steps if s and str(s).strip()]
RECURSIVE strip_steps(_)
strip_steps(steps) ==
    IF steps = <<>> THEN <<>>
    ELSE IF Truthy(Head(steps)) /\ Strip(PyStr(Head(steps))) # <<>>
    THEN <<Strip(PyStr(Head(steps)))>> \o strip_steps(Tail(steps))
    ELSE strip_steps(Tail(steps))

\* a returned value, or the exception that left the call
Returned(v) == [raised |-> FALSE, error |-> "", value |-> v]
Raised(e) == [raised |-> TRUE, error |-> e, value |-> <<>>]

\* the part appended for cot_head / cot_foot: x.strip() when x is truthy
part_of(x) == IF Truthy(x) THEN <<Strip(x.s)>> ELSE <<>>

joined_steps(cot_steps) == IF cot_steps = <<>> THEN <<>> ELSE <<JoinSpace(cot_steps)>>

\* mutant: the answer block comes first
reference_text_answer_first(reasoning_process, answer) ==
    ANSWER_OPEN \o answer \o ANSWER_CLOSE \o THINK_OPEN \o reasoning_process \o THINK_CLOSE

\* f"{think_block}{answer_block}"
reference_text(reasoning_process, answer) ==
    THINK_OPEN \o reasoning_process \o THINK_CLOSE \o ANSWER_OPEN \o answer \o ANSWER_CLOSE

\* answer.strip() if answer else '', then normalize_newlines
reference_answer(answer) == normalize_newlines_str(Strip(answer.s))

\* build_assistant_reference: the reference text, or the error raised
\* (iterating an int is a TypeError; a truthy non-str has no .strip())
build_assistant_reference(cot_head, cot_steps, cot_foot, answer) ==
    IF Truthy(cot_steps) /\ cot_steps.t \notin {"list", "dict"}
    THEN Raised("TypeError")
    ELSE IF Truthy(cot_head) /\ cot_head.t # "str" THEN Raised("AttributeError")
    ELSE IF Truthy(cot_foot) /\ cot_foot.t # "str" THEN Raised("AttributeError")
    ELSE Returned(reference_text(
             Strip(JoinSpace(part_of(cot_head)
                                 \o joined_steps(strip_steps(Iterate(cot_steps)))
                                 \o part_of(cot_foot))),
             reference_answer(answer)))

in_order(think_open, think_close, answer_open, answer_close) ==
    /\ 1 <= think_open
    /\ think_open < think_close
    /\ think_close < answer_open
    /\ answer_open < answer_close

\* preprocess.validate_response_structure: one of each tag, in order
\* (str.find returns -1 for a missing tag: here 0, positions from 1)
preprocess_validate_response_structure(response_content) ==
    IF ~(\A tag \in Tags : Count(response_content, tag) = 1)
    THEN FALSE
    ELSE in_order(Find(response_content, THINK_OPEN, 1),
                  Find(response_content, THINK_CLOSE, 1),
                  Find(response_content, ANSWER_OPEN, 1),
                  Find(response_content, ANSWER_CLOSE, 1))

\* re.match(rf'^\({i}\)\s+[A-Za-z]+\s+is\s+a\s+(knight|knave)$', line,
\* re.IGNORECASE) on a stripped line: q is the position after each part
format_end(line, q) == q # 0 /\ RoleAt(line, q) # <<>> /\ q + Len(RoleAt(line, q)) = Len(line) + 1

format_a(line, q) == q # 0 /\ IsAtCI(line, A, q) /\ format_end(line, SkipSpaces(line, q + Len(A)))

format_is(line, q) == q # 0 /\ IsAtCI(line, IS, q) /\ format_a(line, SkipSpaces(line, q + Len(IS)))

format_name(line, q) ==
    /\ q # 0
    /\ q <= Len(line)
    /\ line[q] \in Letters
    /\ format_is(line, SkipSpaces(line, LetterRunEnd(line, q) + 1))

answer_line_matches(line, i) ==
    /\ IsAt(line, <<"(">> \o PyStr(IntVal(i)) \o <<")">>, 1)
    /\ format_name(line, SkipSpaces(line, Len(PyStr(IntVal(i))) + 3))

\* validate_answer_format(answer_content, expected_count)
lines_match(lines, expected_count) ==
    /\ Len(lines) = expected_count
    /\ \A i \in 1..Len(lines) : answer_line_matches(Strip(lines[i]), i)

validate_answer_format(answer_content, expected_count) ==
    lines_match(SplitLines(Strip(answer_content)), expected_count)

\* "1) get the user question"
resolve_prompt(orig_prompt) ==
    IF orig_prompt.t = "list"
    THEN IF orig_prompt.l[1].t = "dict" THEN StrVal(orig_prompt.l[1].s)
         ELSE StrVal(PyStr(orig_prompt.l[1]))
    ELSE IF orig_prompt.t = "dict" THEN StrVal(orig_prompt.s)
    ELSE StrVal(PyStr(orig_prompt))

user_msg_of(quiz, orig_prompt) ==
    IF Truthy(quiz) THEN quiz
    ELSE IF Truthy(orig_prompt) THEN resolve_prompt(orig_prompt)
    ELSE quiz

\* isinstance(cot_steps, str): cot_steps = [cot_steps]
wrap_str(cot_steps) == IF cot_steps.t = "str" THEN ListVal(<<cot_steps>>) ELSE cot_steps

SYSTEM_MSG == <<"s","y","s","t","e","m">>

\* the record process_fn returns, or the error of build_assistant_reference
record_of(ex, user_msg, solution_text_format, assistant) ==
    IF assistant.raised THEN Raised(assistant.error)
    ELSE Returned(
        [data_source |-> Get(ex.data_source, StrVal(<<"k","k","_","l","o","g","i","c">>)),
         prompt |-> <<[role |-> "system", content |-> StrVal(SYSTEM_MSG)],
                      [role |-> "user", content |-> user_msg]>>,
         response |-> [role |-> "assistant", content |-> assistant.value],
         names |-> convert_numpy_types(Get(ex.names, ListVal(<<>>))),
         solution |-> convert_numpy_types(Get(ex.solution, ListVal(<<>>))),
         solution_text |-> Or(Get(ex.solution_text, StrVal(<<>>)), StrVal(<<>>)),
         ability |-> Get(ex.ability, StrVal(<<"l","o","g","i","c">>)),
         reward_model |->
             [style |-> "rule",
              ground_truth |->
                  [has_key |-> TRUE,
                   solution_text_format |-> solution_text_format,
                   statements |-> IF Truthy(Get(ex.statements, StrVal(<<>>)))
                                  THEN PyStr(ex.statements) ELSE <<>>]],
         extra_info |-> [split |-> "train", index |-> 0]])

\* process_fn from "2) build the assistant reference" on, the solution text
\* being a str
process_reference(ex, user_msg, solution_text_format) ==
    record_of(ex, user_msg, solution_text_format,
              build_assistant_reference(
                  Or(Get(ex.cot_head, PyNone), StrVal(<<>>)),
                  wrap_str(Or(convert_numpy_types(Get(ex.cot_repeat_steps, ListVal(<<>>))),
                              ListVal(<<>>))),
                  Or(Get(ex.cot_foot, PyNone), StrVal(<<>>)),
                  StrVal(solution_text_format)))

\* (example.get("solution_text_format") or "").strip(), normalize_newlines
process_solution(ex, user_msg, solution) ==
    IF solution.t # "str" THEN Raised("AttributeError")
    ELSE process_reference(ex, user_msg,
                           normalize_newlines_str(Strip(solution.s)))

\* make_map_fn(split).process_fn(example, idx)
process_fn(ex) ==
    process_solution(
        ex,
        clean_text_remove_assistant_segments(
            user_msg_of(Get(ex.quiz, StrVal(<<>>)), Get(ex.prompt, PyNone))),
        Or(Get(ex.solution_text_format, PyNone), StrVal(<<>>)))

-----------------------------------------------------------------------------
(* Inputs *)

\* every concatenation of at most n pieces of P
RECURSIVE Concats(_, _)
ConcatsMore(P, shorter) == shorter \cup {s \o p : s \in shorter, p \in P}

Concats(P, n) == IF n = 0 THEN {<<>>} ELSE ConcatsMore(P, Concats(P, n - 1))

\* the longest response, in pieces
MaxPieces == 3

BodyFull == <<"A","l"," ","i","s"," ","a"," ","k","n","i","g","h","t","\\","n","B","o"," ","i","s"," ","a"," ","k","n","a","v","e">>
BodyOther == <<"A","L"," ","i","s"," ","a"," ","K","n","a","v","e">>
BlockFull == ANSWER_OPEN \o <<" ">> \o BodyFull \o ANSWER_CLOSE
BlockOther == ANSWER_OPEN \o BodyOther \o ANSWER_CLOSE
BlockEmpty == ANSWER_OPEN \o <<" ">> \o ANSWER_CLOSE

ResponsePieces ==
    {THINK_OPEN, THINK_CLOSE, ANSWER_OPEN, ANSWER_CLOSE, BlockFull, BlockOther,
     BlockEmpty}

Responses == Concats(ResponsePieces, MaxPieces)

Line1Knight == <<"(","1",")"," ","A","l"," ","i","s"," ","a"," ","k","n","i","g","h","t">>
Line1Knave == <<"(","1",")"," ","A","l"," ","i","s"," ","a"," ","k","n","a","v","e">>
Line2Knave == <<"(","2",")"," ","B","o"," ","i","s"," ","a"," ","k","n","a","v","e">>
Line2Knight == <<"(","2",")"," ","B","o"," ","i","s"," ","a"," ","K","N","I","G","H","T">>
Line2Cy == <<"(","2",")"," ","C","y"," ","i","s"," ","a"," ","k","n","a","v","e">>
Line2Wide == <<"(","2",")"," ","B","o"," "," ","i","s"," ","a"," ","k","n","a","v","e">>
Line2Again == <<"(","2",")"," ","a","l"," ","i","s"," ","a"," ","k","n","a","v","e">>
LineBare == <<"B","o"," ","i","s"," ","a"," ","k","n","a","v","e">>

GT(s) == [has_key |-> TRUE, solution_text_format |-> s, statements |-> <<>>]
NoKey == [has_key |-> FALSE, solution_text_format |-> <<>>, statements |-> <<>>]

UsableGroundTruths ==
    {GT(Line1Knight \o NL \o Line2Knave),
     GT(Line1Knave \o ESC_NL \o Line2Knight),
     GT(Line1Knight \o NL \o Line2Knight),
     GT(Line1Knight \o NL \o Line2Cy),
     GT(Line1Knave)}

UnusableGroundTruths ==
    {GT(<<>>), NoKey, GT(KNIGHT), GT(<<"(","1",")">> \o NL \o <<"4","2">>)}

GroundTruths == UsableGroundTruths \cup UnusableGroundTruths

\* the longest quiz, in pieces
MaxQuizPieces == 3

QuizPieces ==
    {<<"q">>, <<"<","t","h","i">>, <<"n","k",">">>, THINK_OPEN, ANSWER_CLOSE,
     IM_ASSISTANT, <<"<","|","i","m","_","s","t","a","r","t","|",">","a","s","s","i">>,
     <<"s","t","a","n","t">>}

QuizValues ==
    {StrVal(q) : q \in Concats(QuizPieces, MaxQuizPieces)} \cup {Missing, PyNone, IntVal(5)}

PromptText == <<"<","a","n","s">> \o THINK_CLOSE \o <<"w","e","r",">"," ","p">>

PromptValues ==
    {Missing, StrVal(PromptText), Message(PromptText), ListVal(<<Message(PromptText)>>),
     ListVal(<<IntVal(42)>>), IntVal(7)}

HeadValues ==
    {Missing, PyNone, StrVal(<<" ","T","h","i","n","k">>), StrVal(THINK_OPEN),
     StrVal(<<"a"," ","<">>), IntVal(5)}

StepsValues ==
    {Missing,
     ListVal(<<StrVal(<<" ","s","1"," ">>), StrVal(<<" ">>), IntVal(7)>>),
     StrVal(<<"/","t","h","i","n","k",">">>),
     NdarrayVal(<<StrVal(<<"s","1">>)>>),
     IntVal(5),
     Message(<<"x">>)}

FootValues == {Missing, StrVal(THINK_CLOSE), StrVal(<<"s","o">>)}

SolutionValues ==
    {StrVal(Line1Knight \o NL \o Line2Wide),
     StrVal(<<" ">> \o Line1Knave \o ESC_NL \o Line2Knight \o <<" ">>),
     StrVal(Line1Knight \o NL \o Line2Again),
     StrVal(Line1Knight),
     StrVal(Line1Knight \o NL \o LineBare),
     StrVal(Line1Knight \o ESC_NL \o Line2Knave \o NL),
     StrVal(ANSWER_OPEN),
     StrVal(<<>>),
     Missing, PyNone, IntVal(5)}

NoExample ==
    [quiz |-> Missing, prompt |-> Missing, cot_head |-> Missing,
     cot_repeat_steps |-> Missing, cot_foot |-> Missing,
     solution_text_format |-> Missing, statements |-> Missing,
     data_source |-> Missing, ability |-> Missing, names |-> Missing,
     solution |-> Missing, solution_text |-> Missing]

\* the longest text under newline normalization, in pieces
MaxTextPieces == 4

TextPieces == {ESC_NL, NL, <<"\\">>, <<"n">>, <<"a">>}

Texts == Concats(TextPieces, MaxTextPieces)

NotCalled == [raised |-> FALSE, error |-> "not called", value |-> <<>>]
NoNl == [input |-> <<>>, preprocess |-> <<>>, extract |-> <<>>, parse |-> <<>>]

ScorerIdle ==
    /\ gt_status = <<>>
    /\ answer_text = Unassigned
    /\ format_score = 0
    /\ answer_score = 0
    /\ total_score = 0

NormalizerIdle ==
    /\ example = NoExample
    /\ out = NotCalled

NewlinesIdle ==
    /\ text = <<>>
    /\ nl = NoNl

-----------------------------------------------------------------------------
(* The scorer on its own: one call of compute_score *)

Init ==
    /\ pc = "compute_score"
    /\ solution_str \in Responses
    /\ ground_truth \in GroundTruths
    /\ ScorerIdle
    /\ NormalizerIdle
    /\ NewlinesIdle

\* compute_score(solution_str, ground_truth)
ComputeScore ==
    /\ pc = "compute_score"
    /\ \E r \in {compute_score(solution_str, ground_truth)} :
           /\ gt_status' = r.gt_status
           /\ answer_text' = r.answer_text
           /\ format_score' = r.format_score
           /\ answer_score' = r.answer_score
           /\ total_score' = r.total_score
    /\ pc' = "scored"
    /\ UNCHANGED <<solution_str, ground_truth, example, out, text, nl>>

Next == ComputeScore

Spec == Init /\ [][Next]_vars

-----------------------------------------------------------------------------
(* The normalizer, then the scorer on the normalizer's own record *)

InitNorm ==
    /\ pc = "process_fn"
    /\ \E h \in HeadValues, st \in StepsValues, f \in FootValues, sol \in SolutionValues :
           example = [NoExample EXCEPT !.quiz = StrVal(<<"q">>),
                                       !.cot_head = h,
                                       !.cot_repeat_steps = st,
                                       !.cot_foot = f,
                                       !.solution_text_format = sol]
    /\ out = NotCalled
    /\ solution_str = <<>>
    /\ ground_truth = NoKey
    /\ ScorerIdle
    /\ NewlinesIdle

\* process_fn(example, idx)
ProcessFn ==
    /\ pc = "process_fn"
    /\ out' = process_fn(example)
    /\ pc' = "normalized"
    /\ UNCHANGED <<solution_str, ground_truth, gt_status, answer_text, format_score,
                   answer_score, total_score, example, text, nl>>

\* compute_score(record["response"]["content"],
\*               record["reward_model"]["ground_truth"])
ScoreReference ==
    /\ pc = "normalized"
    /\ ~out.raised
    /\ solution_str' = out.value.response.content
    /\ ground_truth' = out.value.reward_model.ground_truth
    /\ \E r \in {compute_score(out.value.response.content,
                               out.value.reward_model.ground_truth)} :
           /\ gt_status' = r.gt_status
           /\ answer_text' = r.answer_text
           /\ format_score' = r.format_score
           /\ answer_score' = r.answer_score
           /\ total_score' = r.total_score
    /\ pc' = "scored"
    /\ UNCHANGED <<example, out, text, nl>>

NextNorm == ProcessFn \/ ScoreReference

SpecNorm == InitNorm /\ [][NextNorm]_vars

-----------------------------------------------------------------------------
(* The normalizer on the user text *)

InitClean ==
    /\ pc = "process_fn"
    /\ \E q \in QuizValues, p \in PromptValues :
           example = [NoExample EXCEPT !.quiz = q,
                                       !.prompt = p,
                                       !.solution_text_format = StrVal(Line1Knight)]
    /\ out = NotCalled
    /\ solution_str = <<>>
    /\ ground_truth = NoKey
    /\ ScorerIdle
    /\ NewlinesIdle

NextClean == ProcessFn

SpecClean == InitClean /\ [][NextClean]_vars

-----------------------------------------------------------------------------
(* Newline normalization: the three copies on one text, then once more *)

InitNewlines ==
    /\ pc = "normalize_newlines"
    /\ text \in Texts
    /\ nl = NoNl
    /\ solution_str = <<>>
    /\ ground_truth = NoKey
    /\ ScorerIdle
    /\ NormalizerIdle

NormalizeNewlines ==
    /\ pc = "normalize_newlines"
    /\ nl' = [input |-> text,
              preprocess |-> normalize_newlines(StrVal(text)).s,
              extract |-> extract_newline_fix(text),
              parse |-> parse_newline_fix(text)]
    /\ text' = normalize_newlines(StrVal(text)).s
    /\ pc' = "normalized"
    /\ UNCHANGED <<solution_str, ground_truth, gt_status, answer_text, format_score,
                   answer_score, total_score, example, out>>

NormalizeAgain ==
    /\ pc = "normalized"
    /\ text' = normalize_newlines(StrVal(text)).s
    /\ pc' = "normalized twice"
    /\ UNCHANGED <<solution_str, ground_truth, gt_status, answer_text, format_score,
                   answer_score, total_score, example, out, nl>>

NextNewlines == NormalizeNewlines \/ NormalizeAgain

SpecNewlines == InitNewlines /\ [][NextNewlines]_vars

-----------------------------------------------------------------------------
(* Properties of the scorer, checked under Spec *)

Scored == pc = "scored"

\* the ground truth parsed to a non-empty identity map, and a call returned
ScoredUsable == Scored /\ Len(gt_status) > 0

FullResponse == THINK_OPEN \o THINK_CLOSE \o BlockFull
FullTruth == GT(Line1Knight \o NL \o Line2Knave)
FullAnswer == <<"A","l"," ","i","s"," ","a"," ","k","n","i","g","h","t">> \o NL \o LineBare

\* C1: compute_score gives format score +1 exactly when the response has one
\* of each of the four markers and their positions are strictly increasing
\* (the predicate of the normalizer's validate_response_structure), and -1
\* for every other response.
C1_FormatIsNormalizerPredicate ==
    ScoredUsable =>
        /\ format_score \in {2, -2}
        /\ format_score = 2 <=> preprocess_validate_response_structure(solution_str)

\* the response lacks </think> and holds one answer block whose content
\* gives the ground-truth role of every expected name
ScenarioB ==
    /\ ScoredUsable
    /\ Count(solution_str, THINK_CLOSE) = 0
    /\ Count(solution_str, ANSWER_OPEN) = 1
    /\ Count(solution_str, ANSWER_CLOSE) = 1
    /\ ~answer_text.none
    /\ answer_text.s # <<>>
    /\ content_score(answer_text.s, gt_status) = 4

\* C2 as stated: in scenario B the format score is -1, the answer score is +2
\* and the total is 1.
C2_ScenarioBTotalOne ==
    ScenarioB => format_score = -2 /\ answer_score = 4 /\ total_score = 2

\* C2, amended: in scenario B the format score is -1, the content is not
\* graded, the answer score is -2 and the total is -3.
C2_ScenarioBTotalMinusThree ==
    ScenarioB => format_score = -2 /\ answer_score = -4 /\ total_score = -6

C2_Witness ==
    /\ ScenarioB
    /\ solution_str = THINK_OPEN \o BlockFull
    /\ ground_truth = FullTruth
    /\ total_score = -6

\* the answer score the content rules of C3 give to the call
AnswerRule ==
    IF ~preprocess_validate_response_structure(solution_str)
          \/ answer_text.none \/ answer_text.s = <<>>
    THEN -4
    ELSE content_score(answer_text.s, gt_status)

\* C3: with a usable ground truth the answer score is -2 for a structurally
\* invalid response or an absent or empty answer, and otherwise the score of
\* the content rules (-2, +2, -1, -1.5); the total is format plus answer.
C3_AnswerScoreFunction ==
    ScoredUsable =>
        /\ answer_score = AnswerRule
        /\ total_score = format_score + answer_score

\* C4: when the ground truth parses to zero name/role pairs, compute_score
\* returns -3 for every response, and neither extracts nor validates it; the
\* empty text, the missing key and a text without a name before a role are
\* such ground truths.
C4_UnusableGroundTruth ==
    Scored =>
        /\ Len(gt_status) = 0 =>
               /\ total_score = -6
               /\ answer_text = Unassigned
               /\ format_score = 0
               /\ answer_score = 0
        /\ ground_truth \in UnusableGroundTruths => Len(gt_status) = 0

C4_Witness ==
    /\ Scored
    /\ solution_str = FullResponse
    /\ ground_truth = GT(KNIGHT)
    /\ gt_status = <<>>
    /\ total_score = -6

\* the response holds two or more answer blocks
ManyBlocks == ScoredUsable /\ Len(answer_matches(solution_str, 1)) >= 2

LastOf(matches) == matches[Len(matches)]

\* the content of the last answer block, trimmed and newline-normalized
LastBlock == extract_newline_fix(Strip(LastOf(answer_matches(solution_str, 1))))

ContentRule(answer) == IF answer = <<>> THEN -4 ELSE content_score(answer, gt_status)

\* C5 as stated: with two or more answer blocks the answer score is the one
\* the content rules give for the text of the last block.
C5_LastBlockGraded ==
    ManyBlocks => answer_score = ContentRule(LastBlock)

\* C5, amended: with two or more answer blocks the extracted answer is the
\* content of the last block, but the response is structurally invalid, so
\* the content is not graded: format -1, answer -2.
C5_LastBlockExtractedNotGraded ==
    ManyBlocks =>
        /\ answer_text = Some(LastBlock)
        /\ format_score = -2
        /\ answer_score = -4
        /\ total_score = -6

C5_Witness ==
    /\ ManyBlocks
    /\ solution_str = BlockOther \o BlockFull
    /\ ground_truth = FullTruth
    /\ answer_text = Some(FullAnswer)
    /\ answer_score = -4

-----------------------------------------------------------------------------
(* Properties of the normalizer, checked under SpecNorm and SpecClean *)

\* process_fn returned a record
Normalized == pc \in {"normalized", "scored"} /\ ~out.raised

\* the strings a field contributes to the reference response
TextsOf(v) ==
    CASE v.t = "str" -> {v.s}
      [] v.t \in {"list", "ndarray"} -> {PyStr(v.l[i]) : i \in 1..Len(v.l)}
      [] v.t = "dict" -> {ROLE_KEY, CONTENT_KEY}
      [] OTHER -> {}

MarkerFree(v) == \A t \in TextsOf(v), tag \in Tags : ~Contains(t, tag)

ReasoningMarkerFree ==
    /\ MarkerFree(example.cot_head)
    /\ MarkerFree(example.cot_repeat_steps)
    /\ MarkerFree(example.cot_foot)

SolutionNonEmpty ==
    example.solution_text_format.t = "str" /\ example.solution_text_format.s # <<>>

\* C6 as stated: for a non-empty solution_text_format and every value of the
\* reasoning fields, the response.content of the returned record has one of
\* each marker, in strictly increasing order.
C6_ReferenceAlwaysValid ==
    Normalized /\ SolutionNonEmpty =>
        preprocess_validate_response_structure(out.value.response.content)

\* C6, amended: for a non-empty solution_text_format, the response.content of
\* the returned record has one of each marker, in strictly increasing order,
\* provided no reasoning field and no solution text contains a marker.
C6_ReferenceValidWhenMarkerFree ==
    Normalized /\ SolutionNonEmpty /\ ReasoningMarkerFree
               /\ MarkerFree(example.solution_text_format) =>
        preprocess_validate_response_structure(out.value.response.content)

C6_Witness ==
    /\ Normalized
    /\ example.cot_head = StrVal(<<"a"," ","<">>)
    /\ example.cot_repeat_steps = StrVal(<<"/","t","h","i","n","k",">">>)
    /\ example.cot_foot = StrVal(<<"s","o">>)
    /\ example.solution_text_format = StrVal(Line1Knight)
    /\ out.value.response.content =
           THINK_OPEN \o <<"a"," ","<"," ","/","t","h","i","n","k",">"," ","s","o">>
               \o THINK_CLOSE \o ANSWER_OPEN \o Line1Knight \o ANSWER_CLOSE

\* C7: whatever the type of cot_head, cot_foot, cot_repeat_steps and
\* solution_text_format, process_fn raises no error and returns a record.
C7_WronglyTypedTolerated == pc # "process_fn" => ~out.raised

\* C9: the user message of the returned record contains no think or answer
\* marker and no assistant-turn marker.
C9_UserTextMarkerFree ==
    Normalized /\ out.value.prompt[2].content.t = "str" =>
        \A m \in Tags \cup {IM_ASSISTANT} :
            ~Contains(out.value.prompt[2].content.s, m)

\* the name of an answer line "(i) <Name> is a <role>", lowered
NameStart(line) == SkipSpaces(line, Find(line, <<")">>, 1) + 1)
NameOf(line) == SubSeq(line, NameStart(line), LetterRunEnd(line, NameStart(line)))
Lowered(word) == [i \in 1..Len(word) |-> ToLower(word[i])]
LoweredNames(lines) == [i \in 1..Len(lines) |-> Lowered(NameOf(Strip(lines[i])))]
Distinct(seq) == \A i, j \in 1..Len(seq) : i # j => seq[i] # seq[j]

\* every line of the solution text is in the answer-line grammar
InGrammar(solution_text) ==
    validate_answer_format(solution_text, Len(SplitLines(Strip(solution_text))))

\* the solution text of the record: lines in the grammar, names distinct
\* ignoring case; the reasoning fields hold no marker
RoundTripCase ==
    /\ Scored
    /\ ReasoningMarkerFree
    /\ InGrammar(ground_truth.solution_text_format)
    /\ Distinct(LoweredNames(SplitLines(Strip(ground_truth.solution_text_format))))

\* C10: scoring the reference response of the record against the ground
\* truth of the same record gives 3, when the solution text is in the
\* grammar with distinct names and the reasoning fields hold no marker.
C10_RoundTripMaximum ==
    RoundTripCase => format_score = 2 /\ answer_score = 4 /\ total_score = 6

C10_Witness ==
    /\ RoundTripCase
    /\ example.solution_text_format = StrVal(<<" ">> \o Line1Knave \o ESC_NL \o Line2Knight \o <<" ">>)
    /\ example.cot_repeat_steps = ListVal(<<StrVal(<<" ","s","1"," ">>), StrVal(<<" ">>), IntVal(7)>>)
    /\ ground_truth.solution_text_format = Line1Knave \o NL \o Line2Knight
    /\ total_score = 6

-----------------------------------------------------------------------------
(* Properties of newline normalization, checked under SpecNewlines *)

\* C8: newline normalization is idempotent, returns a string with a real
\* newline unchanged, leaves no escape in a string without one, and its three
\* copies return the same string.
C8_NewlineNormalization ==
    /\ pc # "normalize_newlines" =>
           /\ Contains(nl.input, NL) => nl.preprocess = nl.input
           /\ ~Contains(nl.input, NL) =>
                  /\ ~Contains(nl.preprocess, ESC_NL)
                  /\ Len(nl.preprocess) = Len(nl.input) - Count(nl.input, ESC_NL)
           /\ nl.extract = nl.preprocess
           /\ nl.parse = nl.preprocess
    /\ pc = "normalized twice" => text = nl.preprocess

C8_Witness ==
    /\ pc = "normalized twice"
    /\ nl.input = ESC_NL \o <<"a">> \o NL \o ESC_NL
    /\ text = nl.input
    /\ nl.extract = nl.input

=============================================================================
